---- MODULE Spec2Model ----
(***************************************************************************)
(* State-machine model of web_app.py, the Streamlit page of the Snooker    *)
(* Game Visualizer.  Streamlit executes the whole script from top to       *)
(* bottom on every rerun; the only state that survives a rerun is          *)
(* st.session_state.  ScriptRun is one execution of the script; Rerun is   *)
(* the user interaction that clears the page and requests the next one.    *)
(*                                                                         *)
(* Numbers.  Spreadsheet cells are floats in the program; the model keeps  *)
(* them exact.  "Total Frames" is counted in units of 1/FrameDen frame, a  *)
(* colour proportion and a threshold in units of 1/PropDen, a timestamp in *)
(* ticks (TicksPerDay ticks a day).  An average is a fraction <<n, d>> in  *)
(* lowest terms with d > 0.                                                *)
(***************************************************************************)
EXTENDS Integers, Sequences, FiniteSets, TLC

\* ------------------------------------------------------------------ bounds
MaxRows == 2          \* rows of the "Game view" sheet
FrameDen == 2         \* a frame count is a multiple of 1/FrameDen
MaxFrameUnits == 4    \* largest "Total Frames" cell, in units of 1/FrameDen
TicksPerDay == 2      \* clock resolution
TodayDay == 1000      \* the day the page is used on
MaxMatchups == 2      \* rows of a scraped event page

\* -------------------------------------------------------- program constants
PropDen == 1000       \* the threshold literals carry three decimals
SliderStep == 10      \* step=0.01
Preset3Months == 90
Preset6Months == 180
PresetYear == 365
Preset2Years == 730
OneYear == 365
threshold == 80       \* fuzzy_match_name(..., threshold=80)

color_list == <<"Yellow", "Green", "Brown", "Blue", "Pink", "Black", "Baulk">>

Colors == {color_list[i] : i \in 1..Len(color_list)}

threshold_values ==
  [c \in Colors |->
     CASE c = "Yellow" -> 111
       [] c = "Green"  -> 118
       [] c = "Brown"  -> 105
       [] c = "Blue"   -> 308
       [] c = "Pink"   -> 118
       [] c = "Black"  -> 357
       [] c = "Baulk"  -> 318]

\* The positions a threshold slider offers: its initial value and the grid
\* min_value, min_value + step, ..., max_value.
SliderValues(c) ==
  {threshold_values[c]} \cup {k * SliderStep : k \in 0..(PropDen \div SliderStep)}

\* ------------------------------------------------------------- spreadsheet
\* A cell: a number, a text that is no number, or a blank (NaN).
Num(n) == [t |-> "num", v |-> n]
Text == [t |-> "str", v |-> 0]
NaN == [t |-> "nan", v |-> 0]

NoName == "<NaN>"      \* the name of an ID that PlayerKeys does not list
NoFile == [none |-> TRUE, game_view |-> <<>>, player_keys |-> <<>>]

Columns == {"Date", "Tournament", "Player 1", "Player 2", "Total Frames"} \cup Colors

\* Names in sorted order (sorted() of line 59 orders the names present).
NameOrder == <<"Ann", "Bob">>

\* ---------------------------------------------------------------- helpers
RECURSIVE Filter(_, _)
Filter(s, keep) ==
  IF s = <<>> THEN <<>>
  ELSE IF Head(s) \in keep THEN <<Head(s)>> \o Filter(Tail(s), keep)
                           ELSE Filter(Tail(s), keep)

RECURSIVE SumSeq(_)
SumSeq(s) == IF s = <<>> THEN 0 ELSE Head(s) + SumSeq(Tail(s))

Abs(n) == IF n < 0 THEN -n ELSE n

RECURSIVE GCD(_, _)
GCD(a, b) == IF b = 0 THEN a ELSE GCD(b, a % b)

\* n/d in lowest terms, d >= 0.  A float series divided by 0 raises nothing:
\* it holds inf (<<1, 0>>), -inf (<<-1, 0>>) or NaN (<<0, 0>>).
Frac(n, d) ==
  IF d = 0 THEN <<IF n > 0 THEN 1 ELSE IF n < 0 THEN -1 ELSE 0, 0>>
  ELSE IF n = 0 THEN <<0, 1>>
  ELSE LET g == GCD(Abs(n), d) IN <<n \div g, d \div g>>

\* int(): truncation towards zero of n/d, d > 0.
int(n, d) == IF n >= 0 THEN n \div d ELSE -((-n) \div d)

\* pd.to_numeric(errors='coerce') and .fillna(0) on one cell.
to_numeric(cell) == IF cell.t = "num" THEN cell ELSE NaN

\* A fill value that is not the one asked for.
fillna_other(cell, x) == IF cell.t = "nan" THEN Num(x + 1) ELSE cell

fillna(cell, x) == IF cell.t = "nan" THEN Num(x) ELSE cell

\* pd.to_datetime(..., format="%Y%m%d"): midnight of the day.
to_datetime(day) == day * TicksPerDay

timedelta(days) == days * TicksPerDay

\* ------------------------------------------------------------ loading
\* Lines 24-34: the game rows with the two name columns and the timestamp.
\* The PlayerKeys sheet lists the IDs 1..Len(keys) with their names.
id_to_name(keys, id) == IF id \in DOMAIN keys THEN keys[id] ELSE NoName

load_game_df(file) ==
  [i \in 1..Len(file.game_view) |->
     LET r == file.game_view[i] IN
     [col \in Columns \cup {"Player 1 Name", "Player 2 Name"} |->
        CASE col = "Date" -> to_datetime(r["Date"])
          [] col = "Player 1 Name" -> id_to_name(file.player_keys, r["Player 1"])
          [] col = "Player 2 Name" -> id_to_name(file.player_keys, r["Player 2"])
          [] OTHER -> r[col]]]

\* Line 59: the sorted names that occur in either name column.
player_list_of(df) ==
  LET present == ({df[i]["Player 1 Name"] : i \in 1..Len(df)}
                  \cup {df[i]["Player 2 Name"] : i \in 1..Len(df)}) \ {NoName}
  IN Filter(NameOrder, present)

\* ------------------------------------------------------- get_player_stats
\* Line 93: the rows of the player, in the sheet's order.
is_player_game(row, player_name) ==
  row["Player 1 Name"] = player_name \/ row["Player 2 Name"] = player_name

RECURSIVE select_games(_, _)
select_games(df, player_name) ==
  IF df = <<>> THEN <<>>
  ELSE IF is_player_game(Head(df), player_name)
       THEN <<Head(df)>> \o select_games(Tail(df), player_name)
       ELSE select_games(Tail(df), player_name)

\* The rows that name the player as Player 1, then those that name the player
\* as Player 2: a row naming the player twice comes twice.
RECURSIVE select_by_column(_, _, _)
select_by_column(df, column, player_name) ==
  IF df = <<>> THEN <<>>
  ELSE IF Head(df)[column] = player_name
       THEN <<Head(df)>> \o select_by_column(Tail(df), column, player_name)
       ELSE select_by_column(Tail(df), column, player_name)

player_games_concat(df, player_name) ==
  select_by_column(df, "Player 1 Name", player_name)
  \o select_by_column(df, "Player 2 Name", player_name)

player_games_of(df, player_name) == select_games(df, player_name)

\* Lines 96-99: the coerced cell of one column of one row.
coerce(cell) == fillna(to_numeric(cell), 0).v

\* The guard total_frames >= 0 in place of total_frames > 0.
weighted_average_unguarded(weighted_sum, total_frames) ==
  IF total_frames >= 0
  THEN Frac(weighted_sum, PropDen * FrameDen * total_frames)
  ELSE <<0, 1>>

\* Lines 104-107: one colour's average; weighted_sum counts 1/(PropDen*FrameDen).
weighted_average(weighted_sum, total_frames) ==
  IF total_frames > 0
  THEN Frac(weighted_sum, PropDen * FrameDen * total_frames)
  ELSE <<0, 1>>

\* Lines 92-113.
get_player_stats(df, player_name) ==
  LET player_games == player_games_of(df, player_name)
      n == Len(player_games)
      frames == [i \in 1..n |-> coerce(player_games[i]["Total Frames"])]
      weighted_sums == [c \in Colors |->
                          SumSeq([i \in 1..n |-> coerce(player_games[i][c]) * frames[i]])]
      total_frames == int(SumSeq(frames), FrameDen)
      weighted_avgs == [c \in Colors |-> weighted_average(weighted_sums[c], total_frames)]
  IN [avg_colors |-> weighted_avgs, num_games |-> n, total_frames |-> total_frames]

\* --------------------------------------------------------- date filtering
\* Lines 69-85: the two bounds, or the IndexError of date_range[1] while the
\* date_input holds a single date.
MinDate(df) == CHOOSE d \in {df[i]["Date"] : i \in 1..Len(df)} :
                 \A i \in 1..Len(df) : d <= df[i]["Date"]

MaxDate(df) == CHOOSE d \in {df[i]["Date"] : i \in 1..Len(df)} :
                 \A i \in 1..Len(df) : d >= df[i]["Date"]

preset_start(preset, today, df) ==
  CASE preset = "Last 3 Months" -> today - timedelta(Preset3Months)
    [] preset = "Last 6 Months" -> today - timedelta(Preset6Months)
    [] preset = "Last Year"     -> today - timedelta(PresetYear)
    [] preset = "Last 2 Years"  -> today - timedelta(Preset2Years)
    [] OTHER                    -> MinDate(df)

\* The lower bound exclusive.
in_date_range_exclusive(date, start_date, end_date) == date > start_date /\ date <= end_date

\* Lines 87-90: one row's test.
in_date_range(date, start_date, end_date) == date >= start_date /\ date <= end_date

RECURSIVE filter_dates(_, _, _)
filter_dates(df, start_date, end_date) ==
  IF df = <<>> THEN <<>>
  ELSE IF in_date_range(Head(df)["Date"], start_date, end_date)
       THEN <<Head(df)>> \o filter_dates(Tail(df), start_date, end_date)
       ELSE filter_dates(Tail(df), start_date, end_date)

\* Line 208: the rows of the last 365 days (no upper bound).
RECURSIVE one_year_rows(_, _)
one_year_rows(df, today) ==
  IF df = <<>> THEN <<>>
  ELSE IF Head(df)["Date"] >= today - timedelta(OneYear)
       THEN <<Head(df)>> \o one_year_rows(Tail(df), today)
       ELSE one_year_rows(Tail(df), today)

\* ------------------------------------------------------------- thresholds
\* At the threshold counted as above it.
at_or_above_threshold(avg, thr) == avg[1] * PropDen >= thr * avg[2]

\* avg = <<n, d>> against a threshold in units of 1/PropDen.
above_threshold(avg, thr) == avg[1] * PropDen > thr * avg[2]

\* Lines 118-123: "Percentage Diff" < 0.  A threshold of 0 divides by zero,
\* which pandas answers with -inf (< 0), NaN or +inf (not < 0).
diff_negative(avg, thr) == avg[1] * PropDen < thr * avg[2]

\* Lines 115-148.  The bar colour of a ball whose difference is not negative
\* reads color_mapping, a name the script never defines: NameError.
create_chart(data, thresholds) ==
  IF \A c \in Colors : diff_negative(data[c], thresholds[c]) THEN "chart" ELSE "NameError"

\* ---------------------------------------------------------------- scraping
\* What requests.get brings back: a page of rows, or an exception.
HTTPError == [ok |-> FALSE, rows |-> <<>>]

Page(rows) == [ok |-> TRUE, rows |-> rows]

NoLabel == <<>>
NoTitle == [best |-> "", score |-> 0, title |-> FALSE]

\* A scraped player link: its title attribute, known to the model by what
\* process.extractOne answers for it against the player list.
Scraped(best, score) == [best |-> best, score |-> score, title |-> TRUE]

\* Line 151: the library's best match and its score.
extractOne(name, name_list) == <<name.best, name.score>>

None == "<None>"

\* Lines 150-152.
fuzzy_match_name(name, name_list) ==
  LET m == extractOne(name, name_list)
  IN IF m[2] >= threshold THEN m[1] ELSE None

truthy(match) == match # None /\ match # ""

\* Lines 154-168: no try block; a failing requests.get propagates.
RECURSIVE parse_tournaments(_)
parse_tournaments(rows) ==
  IF rows = <<>> THEN <<>>
  ELSE IF Head(rows).anchor
       THEN <<[label |-> <<Head(rows).name, Head(rows).date>>, id |-> Head(rows).event]>>
            \o parse_tournaments(Tail(rows))
       ELSE parse_tournaments(Tail(rows))

fetch_tournament_list(response) ==
  IF response = HTTPError
  THEN [raised |-> TRUE, value |-> <<>>]
  ELSE [raised |-> FALSE, value |-> parse_tournaments(response.rows)]

\* Lines 170-191: every exception is caught, reported and answered by [].
RECURSIVE parse_matchups(_, _)
parse_matchups(rows, selected_round) ==
  IF rows = <<>> THEN [raised |-> FALSE, value |-> <<>>]
  ELSE LET row == Head(rows)
           rest == parse_matchups(Tail(rows), selected_round)
       IN IF selected_round # None /\ row.round # selected_round THEN rest
          ELSE IF ~row.p1.title \/ ~row.p2.title
               THEN [raised |-> TRUE, value |-> <<>>]        \* KeyError: 'title'
               ELSE IF rest.raised THEN rest
                    ELSE [raised |-> FALSE, value |-> <<<<row.p1, row.p2>>>> \o rest.value]

Msg(kind, a, b, on) == [kind |-> kind, a |-> a, b |-> b, on |-> on]

get_upcoming_matchups_from_event(response, selected_round) ==
  LET r == IF response = HTTPError THEN [raised |-> TRUE, value |-> <<>>]
           ELSE parse_matchups(response.rows, selected_round)
  IN IF r.raised
     THEN [matchups |-> <<>>, screen |-> <<Msg("error", "Error scraping matchups", "", {})>>]
     ELSE [matchups |-> r.value, screen |-> <<>>]

\* Lines 212-226: the loop over the scraped pairs; the lines it writes.
positive_bias(stats, thresholds) ==
  {c \in Colors : above_threshold(stats[c], thresholds[c])}

RECURSIVE matchup_lines(_, _, _, _)
matchup_lines(matchups, player_list, one_year_df, thresholds) ==
  IF matchups = <<>> THEN <<>>
  ELSE LET match_p1 == fuzzy_match_name(Head(matchups)[1], player_list)
           match_p2 == fuzzy_match_name(Head(matchups)[2], player_list)
           rest == matchup_lines(Tail(matchups), player_list, one_year_df, thresholds)
       IN IF truthy(match_p1) /\ truthy(match_p2)
          THEN LET stats_a == get_player_stats(one_year_df, match_p1).avg_colors
                   stats_b == get_player_stats(one_year_df, match_p2).avg_colors
                   common_positive == positive_bias(stats_a, thresholds)
                                      \cap positive_bias(stats_b, thresholds)
               IN IF common_positive # {}
                  THEN <<Msg("write", match_p1, match_p2, common_positive)>> \o rest
                  ELSE rest
          ELSE rest

\* Lines 207-228: the "Fetch Matchups" handler; what it puts on the screen.
fetch_matchups(game_df, player_list, thresholds, today, response, selected_round) ==
  LET one_year_df == one_year_rows(game_df, today)
      got == get_upcoming_matchups_from_event(response, selected_round)
      lines == matchup_lines(got.matchups, player_list, one_year_df, thresholds)
  IN [matchups |-> got.matchups,
      screen |-> got.screen
                 \o <<Msg("markdown", "Matchups with Positive Bias (Both Players)", "", {})>>
                 \o lines
                 \o (IF lines = <<>>
                     THEN <<Msg("info", "No matchups with both players showing positive bias on any color.", "", {})>>
                     ELSE <<>>)]

\* ------------------------------------------------------------------ state
VARIABLES
  session_uploaded_file,  \* st.session_state.uploaded_file
  pc,                     \* "pending": a rerun is requested; "done": the script ran
  widgets,                \* what the widgets and the outside world held during the run
  page                    \* the script's locals and what it put on the screen

vars == <<session_uploaded_file, pc, widgets, page>>

ZeroStats == [c \in Colors |-> <<0, 1>>]

\* The page before anything is computed.
Blank ==
  [error |-> "none", uploaded_file |-> NoFile, game_df |-> <<>>, player_list |-> <<>>,
   filtered |-> FALSE, start_date |-> 0, end_date |-> 0, filtered_df |-> <<>>,
   tournaments |-> <<>>, selected_event |-> None, fetched |-> FALSE, matchups |-> <<>>,
   screen |-> <<>>, selected_player |-> None, stats |-> ZeroStats, games |-> 0,
   frames |-> 0, charted |-> FALSE, chart |-> <<>>]

\* The widget values of a run that reads none of them.
Untouched ==
  [upload |-> NoFile, initial_upload |-> NoFile, new_upload |-> NoFile,
   min_thresholds |-> threshold_values, player_a |-> None, player_b |-> None,
   use_presets |-> TRUE, preset |-> "All Time", today |-> to_datetime(TodayDay),
   date_range |-> <<>>, tournament_page |-> HTTPError, selected_label |-> NoLabel,
   selected_round |-> None, fetch |-> FALSE, event_page |-> HTTPError,
   selected_player |-> None]

\* ------------------------------------------------------------- the script
\* Lines 232-237: the individual player chart and the second uploader.
chart_section(p, in) ==
  LET s == get_player_stats(p.filtered_df, in.selected_player)
      c == create_chart(s.avg_colors, in.min_thresholds)
      q == [p EXCEPT !.selected_player = in.selected_player, !.stats = s.avg_colors,
                     !.games = s.num_games, !.frames = s.total_frames, !.charted = TRUE]
  IN IF c = "NameError" THEN [q EXCEPT !.error = "NameError"]
     ELSE [q EXCEPT !.chart = <<in.selected_player, s.num_games, s.total_frames>>]

\* Lines 193-230: the tournament sidebar.
tournament_section(p, in) ==
  LET t == fetch_tournament_list(in.tournament_page)
  IN IF t.raised THEN [p EXCEPT !.error = "RequestException"]
     ELSE IF t.value = <<>>
     THEN chart_section(
            [p EXCEPT !.screen = <<Msg("warning", "Could not load tournament list.", "", {})>>], in)
     ELSE LET hit == CHOOSE i \in 1..Len(t.value) :
                       /\ t.value[i].label = in.selected_label
                       /\ \A j \in 1..(i - 1) : t.value[j].label # in.selected_label
              q == [p EXCEPT !.tournaments = t.value, !.selected_event = t.value[hit].id]
          IN IF in.fetch
             THEN LET f == fetch_matchups(p.game_df, p.player_list, in.min_thresholds,
                                          in.today, in.event_page, in.selected_round)
                  IN chart_section([q EXCEPT !.fetched = TRUE, !.matchups = f.matchups,
                                             !.screen = f.screen], in)
             ELSE chart_section(q, in)

\* Lines 66-90: the date bounds and the filtered rows.
date_section(p, in) ==
  IF ~in.use_presets /\ Len(in.date_range) < 2
  THEN [p EXCEPT !.error = "IndexError"]
  ELSE LET start_date == IF in.use_presets THEN preset_start(in.preset, in.today, p.game_df)
                         ELSE to_datetime(in.date_range[1])
           end_date == IF in.use_presets THEN in.today ELSE to_datetime(in.date_range[2])
       IN tournament_section(
            [p EXCEPT !.filtered = TRUE, !.start_date = start_date, !.end_date = end_date,
                      !.filtered_df = filter_dates(p.game_df, start_date, end_date)], in)

\* Lines 23-65: loading and the two player selectboxes.  player_list[0] of an
\* empty list is an IndexError; index=1 into a list of one name is refused
\* by the selectbox.
body(file, in) ==
  LET game_df == load_game_df(file)
      player_list == player_list_of(game_df)
      p == [Blank EXCEPT !.uploaded_file = file, !.game_df = game_df,
                         !.player_list = player_list]
  IN IF player_list = <<>> THEN [p EXCEPT !.error = "IndexError"]
     ELSE LET index == IF player_list[1] = in.player_a THEN 1 ELSE 0
          IN IF index >= Len(player_list)
             THEN [p EXCEPT !.error = "StreamlitAPIException"]
             ELSE date_section(p, in)

\* Lines 13-23 and 238-241: which file the run works on, and what the session
\* caches at its end.
file_of_run(session, in) == IF session # NoFile THEN session ELSE in.upload

\* The second uploader's file replacing the cached one.
session_after_new_upload(session, in) ==
  IF in.new_upload # NoFile THEN in.new_upload
  ELSE IF session # NoFile THEN session
  ELSE IF in.upload # NoFile THEN in.upload
  ELSE in.initial_upload

session_after(session, in) ==
  IF session # NoFile THEN session
  ELSE IF in.upload # NoFile THEN in.upload
  ELSE IF in.initial_upload # NoFile THEN in.initial_upload
  ELSE session

script(session, in) ==
  IF file_of_run(session, in) = NoFile THEN Blank ELSE body(file_of_run(session, in), in)

\* What a run may read: a widget that is not drawn holds nothing, a selectbox
\* holds one of its options.
Readable(session, in) ==
  LET file == file_of_run(session, in)
      names == IF file = NoFile THEN {}
               ELSE {n \in {NameOrder[i] : i \in 1..Len(NameOrder)} :
                       \E i \in 1..Len(player_list_of(load_game_df(file))) :
                         player_list_of(load_game_df(file))[i] = n}
  IN /\ (session # NoFile => in.upload = NoFile)
     /\ (file # NoFile => in.initial_upload = NoFile)
     /\ (file = NoFile => in = [Untouched EXCEPT !.initial_upload = in.initial_upload])
     /\ (file # NoFile =>
           /\ (names = {} => in.player_a = None /\ in.player_b = None)
           /\ (names # {} => in.player_a \in names /\ in.player_b \in names)
           /\ in.selected_player \in {in.player_a, in.player_b}
           /\ \A c \in Colors : in.min_thresholds[c] \in SliderValues(c)
           /\ (in.tournament_page # HTTPError =>
                 LET t == parse_tournaments(in.tournament_page.rows)
                 IN IF t = <<>> THEN in.selected_label = NoLabel
                    ELSE \E i \in 1..Len(t) : t[i].label = in.selected_label))

\* ---------------------------------------------------------------- actions
Init ==
  /\ session_uploaded_file = NoFile
  /\ pc = "pending"
  /\ widgets = Untouched
  /\ page = Blank

\* One execution of the script, top to bottom.
ScriptRun(in) ==
  /\ pc = "pending"
  /\ Readable(session_uploaded_file, in)
  /\ pc' = "done"
  /\ widgets' = in
  /\ page' = script(session_uploaded_file, in)
  /\ session_uploaded_file' = session_after(session_uploaded_file, in)

\* The user touches a widget: the page is cleared and a rerun is requested.
Rerun ==
  /\ pc = "done"
  /\ pc' = "pending"
  /\ widgets' = Untouched
  /\ page' = Blank
  /\ UNCHANGED session_uploaded_file

\* ----------------------------------------------------- spreadsheets, inputs
Row(day, tournament, p1, p2, frames, cells) ==
  [col \in Columns |->
     CASE col = "Date" -> day
       [] col = "Tournament" -> tournament
       [] col = "Player 1" -> p1
       [] col = "Player 2" -> p2
       [] col = "Total Frames" -> frames
       [] OTHER -> cells[col]]

File(rows) == [none |-> FALSE, game_view |-> rows, player_keys |-> NameOrder]

SeqsUpTo(S, n) == UNION {[1..k -> S] : k \in 0..n}

Files(rows) == {File(r) : r \in SeqsUpTo(rows, MaxRows)}

Cells(yellow, rest) == [c \in Colors |-> IF c = "Yellow" THEN yellow ELSE rest]

Flat(v) == Cells(Num(v), Num(v))

TournamentRow(event) == [anchor |-> TRUE, name |-> event, event |-> event, date |-> "2025"]

NoTournaments == Page(<<>>)

\* The selections a page drawn for the file starts with: the first player as
\* Player A, the next as Player B, Player A in the chart, every date, the
\* initial thresholds, a tournament list that loads empty.
Defaults(file) ==
  LET names == player_list_of(load_game_df(file))
  IN IF names = <<>> THEN [Untouched EXCEPT !.tournament_page = NoTournaments]
     ELSE [Untouched EXCEPT !.tournament_page = NoTournaments,
                            !.player_a = names[1],
                            !.player_b = names[Len(names)],
                            !.selected_player = names[1]]

\* Where a run on a file can start: on the cached file; or, nothing cached,
\* on a file dropped on the first uploader.  Each with the page's starting
\* selections.
Starts(files) ==
  IF session_uploaded_file # NoFile
  THEN {[file |-> session_uploaded_file, in |-> Defaults(session_uploaded_file)]}
  ELSE {[file |-> f, in |-> [Defaults(f) EXCEPT !.upload = f]] : f \in files}

\* Nothing cached and nothing on the first uploader: the empty page, with or
\* without a file dropped on the uploader at its end.
EmptyPageRun(files) ==
  /\ session_uploaded_file = NoFile
  /\ \E f \in files \cup {NoFile} : ScriptRun([Untouched EXCEPT !.initial_upload = f])

TwoNames(file) == Len(player_list_of(load_game_df(file))) >= 2

\* --- the session: which file the page works on
SessionRows ==
  {Row(d, "E1", 1, 2, Num(FrameDen), Flat(0)) : d \in {TodayDay, TodayDay - Preset3Months - 1}}

SessionFiles == Files(SessionRows)

SessionRun(file, in) ==
  \E f \in SessionFiles : \E dropped \in BOOLEAN : \E p \in {"All Time", "Last 3 Months"} :
    ScriptRun([in EXCEPT !.new_upload = IF dropped THEN f ELSE NoFile, !.preset = p])

Next == Rerun \/ EmptyPageRun(SessionFiles) \/ \E r \in Starts(SessionFiles) : SessionRun(r.file, r.in)

Spec == Init /\ [][Next]_vars

\* --- the aggregation arithmetic: frames and proportions of every kind
FrameCells == {Text} \cup {Num(k) : k \in 0..MaxFrameUnits}

StatsRows ==
  {Row(TodayDay, "E1", 1, 2, f, v) :
     f \in FrameCells,
     v \in {Cells(Text, Num(PropDen \div 2)), Cells(NaN, Num(PropDen))}}
  \cup {Row(TodayDay - Preset3Months - 1, "E1", 1, 2, Num(FrameDen), Flat(PropDen))}

StatsFiles == Files(StatsRows)

StatsRun(file, in) ==
  \E p \in {"All Time", "Last 3 Months"} : ScriptRun([in EXCEPT !.preset = p])

NextStats == Rerun \/ EmptyPageRun(StatsFiles) \/ \E r \in Starts(StatsFiles) : StatsRun(r.file, r.in)

SpecStats == Init /\ [][NextStats]_vars

\* --- the participants: every pairing of the listed and unlisted IDs
PlayerRows ==
  {Row(TodayDay, "E1", p1, p2, Num(p1 * FrameDen), Flat(PropDen \div 2)) :
     p1 \in 1..(Len(NameOrder) + 1), p2 \in 1..(Len(NameOrder) + 1)}

PlayerFiles == Files(PlayerRows)

PlayerRun(file, in) ==
  LET names == player_list_of(load_game_df(file))
      N == {names[i] : i \in 1..Len(names)}
  IN IF names = <<>> THEN ScriptRun(in)
     ELSE \E a \in N : \E b \in N : \E s \in {a, b} :
            ScriptRun([in EXCEPT !.player_a = a, !.player_b = b, !.selected_player = s])

NextPlayers == Rerun \/ EmptyPageRun(PlayerFiles) \/ \E r \in Starts(PlayerFiles) : PlayerRun(r.file, r.in)

SpecPlayers == Init /\ [][NextPlayers]_vars

\* --- the date range and the tournament sidebar
DayChoices == {TodayDay - Preset3Months - 1, TodayDay - Preset3Months, TodayDay, TodayDay + 1}

DateRows ==
  {Row(d, t, 1, 2, Num(FrameDen), Flat(PropDen \div 2)) : d \in DayChoices, t \in {"E1", "E2"}}

DateFiles == Files(DateRows)

Presets == {"Last 3 Months", "Last 6 Months", "Last Year", "Last 2 Years", "All Time"}

TwoTournaments == Page(<<TournamentRow("E1"), TournamentRow("E2")>>)

\* A calendar selection: one date while the range is being picked, or both.
DateRanges ==
  {<<a>> : a \in DayChoices} \cup {d \in DayChoices \X DayChoices : d[1] <= d[2]}

\* A preset at some time of the day, or a calendar selection.
DateSelections ==
  {[use_presets |-> TRUE, preset |-> p, today |-> to_datetime(TodayDay) + tod, date_range |-> <<>>] :
     p \in Presets, tod \in 0..(TicksPerDay - 1)}
  \cup {[use_presets |-> FALSE, preset |-> "All Time", today |-> to_datetime(TodayDay),
         date_range |-> r] : r \in DateRanges}

DateRun(file, in) ==
  IF ~TwoNames(file) THEN ScriptRun(in)
  ELSE \E e \in {"E1", "E2"} : \E d \in DateSelections :
         ScriptRun([in EXCEPT !.tournament_page = TwoTournaments,
                              !.selected_label = <<e, "2025">>,
                              !.use_presets = d.use_presets, !.preset = d.preset,
                              !.today = d.today, !.date_range = d.date_range])

NextDates == Rerun \/ EmptyPageRun(DateFiles) \/ \E r \in Starts(DateFiles) : DateRun(r.file, r.in)

SpecDates == Init /\ [][NextDates]_vars

\* --- scraping and the matchups
ScrapeRows ==
  {Row(TodayDay, "E1", p, Len(NameOrder) + 1, Num(FrameDen),
       Cells(Num(PropDen \div 2), Num(PropDen \div 5))) : p \in 1..Len(NameOrder)}
  \cup {Row(TodayDay - OneYear - 1, "E1", p, Len(NameOrder) + 1, Num(FrameDen), Flat(PropDen)) :
          p \in 1..Len(NameOrder)}

ScrapeFiles == Files(ScrapeRows)

EventRows ==
  {[round |-> "round1", p1 |-> a, p2 |-> Scraped("Bob", threshold)] :
     a \in {Scraped("Ann", threshold), Scraped("Ann", threshold - 1),
            Scraped("Bob", threshold), NoTitle}}
  \cup {[round |-> "round1", p1 |-> Scraped("Ann", threshold),
         p2 |-> Scraped("Bob", threshold - 1)]}

EventPages == {HTTPError} \cup {Page(rows) : rows \in SeqsUpTo(EventRows, MaxMatchups)}

OneTournament == Page(<<TournamentRow("E1")>>)

\* What the sidebar meets: a tournament list that fails, is empty, or holds
\* one tournament; then the button left alone, or pressed on some event page.
Sidebars ==
  {[tournament_page |-> t, selected_label |-> NoLabel, fetch |-> FALSE,
    event_page |-> HTTPError, selected_round |-> None] : t \in {HTTPError, NoTournaments}}
  \cup {[tournament_page |-> OneTournament, selected_label |-> <<"E1", "2025">>,
         fetch |-> FALSE, event_page |-> HTTPError, selected_round |-> None]}
  \cup {[tournament_page |-> OneTournament, selected_label |-> <<"E1", "2025">>,
         fetch |-> TRUE, event_page |-> ep, selected_round |-> None] : ep \in EventPages}
  \cup {[tournament_page |-> OneTournament, selected_label |-> <<"E1", "2025">>,
         fetch |-> TRUE, event_page |-> Page(<<row>>), selected_round |-> r] :
          row \in EventRows, r \in {"round1", "round2"}}

ThresholdChoices == {threshold_values, [c \in Colors |-> PropDen \div 2]}

ScrapeRun(file, in) ==
  IF ~TwoNames(file) THEN ScriptRun(in)
  ELSE \E th \in ThresholdChoices : \E sb \in Sidebars :
         ScriptRun([in EXCEPT !.min_thresholds = th,
                              !.tournament_page = sb.tournament_page,
                              !.selected_label = sb.selected_label,
                              !.fetch = sb.fetch, !.event_page = sb.event_page,
                              !.selected_round = sb.selected_round])

NextScrape == Rerun \/ EmptyPageRun(ScrapeFiles) \/ \E r \in Starts(ScrapeFiles) : ScrapeRun(r.file, r.in)

SpecScrape == Init /\ [][NextScrape]_vars

\* ================================================================= claims
\* What the claims speak of, stated without the script's own operators.
Done == pc = "done"

\* The numeric value a cell carries; a cell that is no number carries none.
Value(cell) == IF cell.t = "num" THEN cell.v ELSE 0

IsNumber(cell) == cell.t = "num"

\* The rows of df in which the player is named as Player 1 or as Player 2.
GamesOf(df, player) ==
  {i \in 1..Len(df) : df[i]["Player 1 Name"] = player \/ df[i]["Player 2 Name"] = player}

RECURSIVE SumOver(_, _)
SumOver(S, f) ==
  IF S = {} THEN 0
  ELSE LET x == CHOOSE y \in S : TRUE IN f[x] + SumOver(S \ {x}, f)

\* Sum of Total Frames over the rows S of df, in units of 1/FrameDen.
FrameSum(df, S) == SumOver(S, [i \in S |-> Value(df[i]["Total Frames"])])

\* Sum of proportion x Total Frames, in units of 1/(PropDen * FrameDen).
WeightedSum(df, S, c) ==
  SumOver(S, [i \in S |-> Value(df[i][c]) * Value(df[i]["Total Frames"])])

\* The fraction n/d, d # 0.
Ratio(n, d) == IF d > 0 THEN Frac(n, d) ELSE Frac(-n, -d)

ChartGames == GamesOf(page.filtered_df, page.selected_player)

\* ---- C1.  For every set of rows and every player, each colour's average is
\* (sum of proportion x Total Frames) / (sum of Total Frames) over the
\* player's games whenever that sum of frames is not 0, whatever numeric
\* Total Frames the sheet carries.
C1_AverageIsTheRatio ==
  (Done /\ page.charted) =>
    LET F == FrameSum(page.filtered_df, ChartGames)
    IN F # 0 =>
         \A c \in Colors :
           page.stats[c] = Ratio(WeightedSum(page.filtered_df, ChartGames, c), PropDen * F)

\* ---- C2.  When the total frames over the player's games is 0 (a player
\* with no games included), every colour's average is exactly 0, the frame
\* count is 0, and nothing is divided by zero.
C2_ZeroFramesZeroAverages ==
  (Done /\ page.charted /\ FrameSum(page.filtered_df, ChartGames) = 0) =>
    /\ \A c \in Colors : page.stats[c] = <<0, 1>>
    /\ page.frames = 0

\* Two games of the player, one with 0 frames and one whose Total Frames is
\* no number, with proportions that are not 0.
C2_Witness ==
  /\ Done /\ page.charted
  /\ page.games = 2
  /\ FrameSum(page.filtered_df, ChartGames) = 0
  /\ \E i \in ChartGames : IsNumber(page.filtered_df[i]["Total Frames"])
  /\ \E i \in ChartGames : ~IsNumber(page.filtered_df[i]["Total Frames"])
  /\ \A i \in ChartGames : \E c \in Colors : Value(page.filtered_df[i][c]) > 0

\* ---- C8.  A value that is no number in Total Frames or in a colour column
\* counts as zero: the row adds 0 to the frame total and 0 to that colour's
\* weighted sum, still counts as a game, and the aggregation raises nothing.
C8_NonNumericCountsAsZero ==
  (Done /\ page.charted) =>
    LET games == player_games_of(page.filtered_df, page.selected_player)
        S == 1..Len(games)
    IN /\ page.games = Len(games)
       /\ page.frames = int(FrameSum(games, S), FrameDen)
       /\ \A c \in Colors :
            page.stats[c] = weighted_average(WeightedSum(games, S, c), page.frames)
       /\ page.error \in {"none", "NameError"}

\* A game without a numeric Total Frames beside a game that has one and a
\* colour cell that is no number.
C8_Witness ==
  /\ Done /\ page.charted /\ page.frames > 0
  /\ \E i \in ChartGames : ~IsNumber(page.filtered_df[i]["Total Frames"])
  /\ \E i \in ChartGames :
       /\ Value(page.filtered_df[i]["Total Frames"]) > 0
       /\ \E c \in Colors : ~IsNumber(page.filtered_df[i][c])

\* ---- C4.  The statistics cover exactly the rows that name the player as
\* Player 1 or Player 2: a row that does not name the player adds nothing,
\* a row that does is counted once in the game count and the frame total,
\* also when both columns name the player.
C4_OnlyTheParticipantsRowsOnce ==
  (Done /\ page.charted) =>
    LET df == page.filtered_df
        S == ChartGames
        frames == SumOver(S, [i \in S |-> coerce(df[i]["Total Frames"])])
    IN /\ page.games = Cardinality(S)
       /\ page.frames = int(frames, FrameDen)
       /\ \A c \in Colors :
            page.stats[c] =
              weighted_average(
                SumOver(S, [i \in S |-> coerce(df[i][c]) * coerce(df[i]["Total Frames"])]),
                page.frames)

\* A row that names the player in both columns beside a row that does not
\* name the player.
C4_Witness ==
  /\ Done /\ page.charted
  /\ \E i \in 1..Len(page.filtered_df) :
       /\ page.filtered_df[i]["Player 1 Name"] = page.selected_player
       /\ page.filtered_df[i]["Player 2 Name"] = page.selected_player
  /\ \E i \in 1..Len(page.filtered_df) : i \notin ChartGames

\* ---- C3.  The date filter is inclusive on both bounds: a row is among the
\* filtered rows if and only if start_date <= Date <= end_date, so a row
\* dated exactly start_date or exactly end_date is kept, with a preset and
\* with a selected range alike.
InRange(i) ==
  page.start_date <= page.game_df[i]["Date"] /\ page.game_df[i]["Date"] <= page.end_date

RECURSIVE RowsAt(_, _, _)
RowsAt(df, S, i) ==
  IF i > Len(df) THEN <<>>
  ELSE (IF i \in S THEN <<df[i]>> ELSE <<>>) \o RowsAt(df, S, i + 1)

C3_DateFilterInclusive ==
  (Done /\ page.filtered) =>
    /\ page.filtered_df = RowsAt(page.game_df, {i \in 1..Len(page.game_df) : InRange(i)}, 1)
    /\ page.end_date = IF widgets.use_presets THEN widgets.today
                       ELSE widgets.date_range[2] * TicksPerDay
    /\ (~widgets.use_presets => page.start_date = widgets.date_range[1] * TicksPerDay)
    /\ (widgets.use_presets /\ widgets.preset = "Last 3 Months" =>
          page.start_date = widgets.today - Preset3Months * TicksPerDay)

\* "Last 3 Months" with a game dated exactly start_date and a game dated
\* exactly end_date, both kept.
C3_Witness ==
  /\ Done /\ page.filtered
  /\ widgets.use_presets /\ widgets.preset = "Last 3 Months"
  /\ \E j \in 1..Len(page.filtered_df) : page.filtered_df[j]["Date"] = page.start_date
  /\ \E j \in 1..Len(page.filtered_df) : page.filtered_df[j]["Date"] = page.end_date

\* ---- C5.  The rows behind a player's statistics are filtered by the
\* tournament set as well as by the date range: a game of a tournament
\* outside the selection adds nothing to the game count, the frame total or
\* the averages.
C5_TournamentFilter ==
  (Done /\ page.charted /\ page.selected_event # None) =>
    LET S == {i \in 1..Len(page.game_df) :
                /\ InRange(i)
                /\ i \in GamesOf(page.game_df, page.selected_player)
                /\ page.game_df[i]["Tournament"] = page.selected_event}
    IN /\ page.games = Cardinality(S)
       /\ page.frames = int(FrameSum(page.game_df, S), FrameDen)

\* ---- C6.  A scrape that fails, of the tournament list or of an event's
\* matchups, is caught: it yields an empty list and an error on the screen,
\* and the run goes on to the individual player chart.
ErrorShown == \E k \in 1..Len(page.screen) : page.screen[k].kind = "error"

Unreadable(rows, selected_round) ==
  \E k \in 1..Len(rows) :
    /\ selected_round = None \/ rows[k].round = selected_round
    /\ ~rows[k].p1.title \/ ~rows[k].p2.title

C6_ScrapeFailuresCaught ==
  (Done /\ page.filtered) =>
    /\ ~widgets.tournament_page.ok =>
         page.tournaments = <<>> /\ ErrorShown /\ page.charted
    /\ (/\ widgets.tournament_page.ok /\ page.tournaments # <<>> /\ widgets.fetch
        /\ \/ ~widgets.event_page.ok
           \/ Unreadable(widgets.event_page.rows, widgets.selected_round)) =>
         page.matchups = <<>> /\ ErrorShown /\ page.charted

\* ---- C7.  A scraped matchup with a player whose best fuzzy match scores
\* below 80 is suppressed, no line is written for it, and a warning is shown
\* for it; a score of exactly 80 is a match.
WriteLines ==
  {k \in 1..Len(page.screen) : page.screen[k].kind = "write"}

LowScore(m) == m[1].score < threshold \/ m[2].score < threshold

C7_LowScoreSuppressedWithWarning ==
  (Done /\ page.fetched) =>
    /\ Cardinality(WriteLines)
         <= Cardinality({i \in 1..Len(page.matchups) : ~LowScore(page.matchups[i])})
    /\ (\E i \in 1..Len(page.matchups) : LowScore(page.matchups[i])) =>
         \E k \in 1..Len(page.screen) : page.screen[k].kind = "warning"

\* ---- C10.  When matchups are fetched, a line is written for a scraped
\* pair if and only if both names matched and some colour has both players'
\* one-year average strictly above its threshold; the line lists exactly
\* those colours; the "No matchups ..." notice shows if and only if no line
\* was written.
YearRows ==
  RowsAt(page.game_df,
         {i \in 1..Len(page.game_df) :
            page.game_df[i]["Date"] >= widgets.today - OneYear * TicksPerDay}, 1)

YearAverage(name) == get_player_stats(YearRows, name).avg_colors

StrictlyAbove(avg, thr) == avg[1] * PropDen > thr * avg[2]

CommonColours(m) ==
  {c \in Colors :
     /\ StrictlyAbove(YearAverage(m[1].best)[c], widgets.min_thresholds[c])
     /\ StrictlyAbove(YearAverage(m[2].best)[c], widgets.min_thresholds[c])}

Written(m) == ~LowScore(m) /\ CommonColours(m) # {}

RECURSIVE ExpectedLines(_)
ExpectedLines(ms) ==
  IF ms = <<>> THEN <<>>
  ELSE (IF Written(Head(ms))
        THEN <<Msg("write", Head(ms)[1].best, Head(ms)[2].best, CommonColours(Head(ms)))>>
        ELSE <<>>) \o ExpectedLines(Tail(ms))

C10_MatchupLines ==
  (Done /\ page.fetched) =>
    /\ RowsAt(page.screen, WriteLines, 1) = ExpectedLines(page.matchups)
    /\ (\E k \in 1..Len(page.screen) : page.screen[k].kind = "info") <=> WriteLines = {}

\* Two scraped pairs, one written with some but not all colours and one not
\* written although both its names matched.
C10_Witness ==
  /\ Done /\ page.fetched
  /\ Len(page.matchups) = 2
  /\ Cardinality(WriteLines) = 1
  /\ \A i \in 1..2 : ~LowScore(page.matchups[i])
  /\ \E k \in WriteLines : page.screen[k].on # Colors

\* ---- C9.  Across reruns the cached session_state.uploaded_file is written
\* once: it starts as None, becomes the first file the user uploads, and
\* from then on every run works on that file and no later upload, the "new
\* Excel file" uploader included, replaces or clears it.
C9_CachedFileWrittenOnce ==
  /\ session_uploaded_file = NoFile
  /\ [][/\ session_uploaded_file # NoFile =>
             /\ session_uploaded_file' = session_uploaded_file
             /\ pc' = "done" => page'.uploaded_file = session_uploaded_file
        /\ (session_uploaded_file = NoFile /\ pc' = "done") =>
             session_uploaded_file' =
               IF widgets'.upload # NoFile THEN widgets'.upload ELSE widgets'.initial_upload
        /\ (session_uploaded_file = NoFile /\ pc' # "done") =>
             session_uploaded_file' = NoFile]_vars

\* A run on the cached file while the second uploader holds another file.
C9_Witness ==
  /\ Done
  /\ session_uploaded_file # NoFile
  /\ widgets.new_upload # NoFile
  /\ widgets.new_upload # session_uploaded_file
  /\ page.uploaded_file = session_uploaded_file
  /\ page.charted

====
